---- MODULE Spec2Model ----
(***************************************************************************)
(* Entity hydration and lazy resolution of khl.py: the Guild aggregate     *)
(* (khl/guild.py), the PublicMessage / PrivateMessage variants             *)
(* (khl/message.py) and the message predicates (khl/command/rule.py).      *)
(*                                                                         *)
(* One entity instance is followed through its life: Init constructs it,   *)
(* every coroutine of the source is a call frame that advances from one    *)
(* await to the next, and the transport (gate.exec_req,                    *)
(* gate.exec_pagination_req) answers each request with a payload, an error *)
(* or a cancellation.                                                      *)
(***************************************************************************)
EXTENDS Integers, Sequences, FiniteSets, TLC

VARIABLES
    cls,     \* the class of the entity followed ("none" until it is built)
    guild,   \* the Guild object (when cls = "Guild")
    msg,     \* the message object (when cls is a message class)
    frames,  \* the coroutine of each task: where it is suspended, its locals
    last,    \* the call that ended last
    prev,    \* the call that ended before it (of a Guild)
    nreq,    \* requests the entity has sent so far
    hist     \* history: the payload shape the entity was built from and the id
             \* it was given, whether a load() and a fetch_channel_list()
             \* refetch have succeeded

vars == <<cls, guild, msg, frames, last, prev, nreq, hist>>

(***************************************************************************)
(* Bounds of the model.                                                    *)
(***************************************************************************)
\* Requests a Guild, a message may send in one behaviour.
MaxGuildReq == 2
MaxMsgReq == 4
\* Quotes nested in a payload.
MaxQuoteDepth == 2

(***************************************************************************)
(* Values.  Python's None is the string "None" where the value is a        *)
(* string; an optional list, set or object carries an isNone field.        *)
(***************************************************************************)
None == "None"

GuildIds == {"g1", "g2"}
ChannelIds == {"c1", "c2"}
UserIds == {"u1", "u2"}
RoleIds == {1}
Names == {"a", "b"}
MsgIds == {"m1"}
ChatCodes == {"k1", "k2"}
Tasks == {"t1", "t2"}

NoneList == [isNone |-> TRUE, items |-> <<>>]
SomeList(s) == [isNone |-> FALSE, items |-> s]

\* Sequences over S of length at most n.
RECURSIVE SeqsUpTo(_, _)
SeqsUpTo(S, n) ==
    IF n = 0 THEN {<<>>}
    ELSE LET shorter == SeqsUpTo(S, n - 1)
         IN shorter \cup {Append(s, e) : s \in {x \in shorter : Len(x) = n - 1}, e \in S}

\* ChannelTypes (khl/interface.py): the discriminant of a listing entry.
ChannelTypes == {"CATEGORY", "TEXT"}
RawChannels == [id : ChannelIds, type : ChannelTypes]
\* A listing names a channel once.
DistinctChannels(s) == \A i, j \in 1..Len(s) : i # j => s[i].id # s[j].id
\* What gate.exec_pagination_req(api.Channel.list(...)) can answer.
ChannelListings == {s \in SeqsUpTo(RawChannels, Cardinality(ChannelIds)) : DistinctChannels(s)}

RawRoles == [role_id : RoleIds, name : {"r"}]
\* A listing names a role once.
DistinctRoles(s) == \A i, j \in 1..Len(s) : i # j => s[i].role_id # s[j].role_id
\* What gate.exec_pagination_req(api.GuildRole.list(...)) can answer.
RoleListings == {s \in SeqsUpTo(RawRoles, Cardinality(RoleIds)) : DistinctRoles(s)}

\* What gate.exec_req(api.Guild.view(id)) can answer; 'roles' and 'channels'
\* may be absent from the object, and a 'channels' list there has at most one
\* entry.
GuildViews ==
    [name : Names,
     roles : {NoneList} \cup {SomeList(s) : s \in RoleListings},
     channels : {NoneList} \cup {SomeList(s) : s \in {l \in ChannelListings : Len(l) <= 1}}]

TransportFailures == {"TransportError", "Cancelled"}

NoneSet == [isNone |-> TRUE, items |-> {}]
SomeSet(S) == [isNone |-> FALSE, items |-> S]
\* A Python bool, or None where the key is absent.
PyBool(b) == IF b THEN "True" ELSE "False"
PyBools == {"True", "False"}

\* An author object of a payload ({'id': ...}), or the absent key.
NoDict == [isNone |-> TRUE, id |-> None]
UserDict(id) == [isNone |-> FALSE, id |-> id]

\* The 'quote' key of a payload: absent (or null), or a nested message payload.
NoQuotePayload == [isNone |-> TRUE]
QuotePayload(kwargs) == [isNone |-> FALSE, kwargs |-> kwargs]

\* The 'attachments' key of a payload (absent, false or an object) and the
\* attachments attribute of a message (unset, None, False or an object).
AttAbsent == [kind |-> "absent", type |-> None]
AttFalse == [kind |-> "False", type |-> None]
AttObject(type) == [kind |-> "object", type |-> type]
AttNone == [kind |-> "None", type |-> None]
AttUnset == [kind |-> "unset", type |-> None]

\* The extra bag of a payload: empty (Rest shape) or the event's fields.
EmptyExtra ==
    [empty |-> TRUE, guild_id |-> None, author |-> NoDict, mention |-> {},
     mention_all |-> None, code |-> None, quote |-> NoQuotePayload]

RestKwargs ==
    [_lazy_loaded_ |-> FALSE, msg_id |-> None, id |-> None, channel_type |-> None,
     target_id |-> None, channel_id |-> None, author_id |-> None, author |-> NoDict,
     mention |-> NoneSet, mention_all |-> None, code |-> None, extra |-> EmptyExtra,
     content |-> None, quote |-> NoQuotePayload, attachments |-> AttAbsent]

\* Event-shaped frames of a guild channel message (extra is non-empty).
EventPublicPayloads ==
    {[RestKwargs EXCEPT !.msg_id = m, !.channel_type = "GROUP", !.target_id = c,
                        !.author_id = a,
                        !.extra = [EmptyExtra EXCEPT !.empty = FALSE, !.guild_id = g,
                                                     !.author = UserDict(a), !.mention = S,
                                                     !.mention_all = b]] :
        m \in MsgIds, c \in ChannelIds, a \in UserIds, g \in GuildIds,
        S \in SUBSET UserIds, b \in PyBools}

\* Rest-shaped objects of a guild channel message: what
\* gate.exec_req(api.Message.view(msg_id)) can answer.
RestPublicPayloads ==
    {[RestKwargs EXCEPT !.id = m, !.channel_id = c, !.author = a, !.mention = S,
                        !.mention_all = b] :
        m \in MsgIds, c \in ChannelIds, a \in {NoDict} \cup {UserDict(u) : u \in UserIds},
        S \in {NoneSet} \cup {SomeSet(x) : x \in SUBSET UserIds}, b \in PyBools \cup {None}}

\* Event-shaped frames of a private chat message.
EventPrivatePayloads ==
    {[RestKwargs EXCEPT !.msg_id = m, !.channel_type = "PERSON", !.author_id = a,
                        !.extra = [EmptyExtra EXCEPT !.empty = FALSE, !.author = UserDict(a),
                                                     !.code = k]] :
        m \in MsgIds, a \in UserIds, k \in ChatCodes}

\* Rest-shaped objects of a private chat message: what
\* gate.exec_req(api.DirectMessage.view(chat_code, msg_id)) can answer.
RestPrivatePayloads ==
    {[RestKwargs EXCEPT !.id = m, !.author_id = a, !.code = k] :
        m \in MsgIds, a \in UserIds \cup {None}, k \in ChatCodes \cup {None}}

(***************************************************************************)
(* Payloads that also carry an id of their own, a content, quotes and      *)
(* attachments; the other keys are fixed.                                  *)
(***************************************************************************)
PayloadMsgIds == {"m1", "m2"}
Contents == {"a", "b"}
PayloadAttachments == {AttAbsent, AttFalse, AttObject("image")}

\* The payload of a quoted message (a Rest-shaped object), which may quote in
\* turn, down to depth d.
RECURSIVE QuotePayloads(_)
QuotePayloads(d) ==
    IF d = 0 THEN {NoQuotePayload}
    ELSE {NoQuotePayload} \cup
         {QuotePayload([RestKwargs EXCEPT !.id = "m2", !.content = "b", !.channel_id = "c2",
                                          !.author = UserDict("u2"), !.author_id = "u2",
                                          !.code = "k2", !.quote = q]) :
            q \in QuotePayloads(d - 1)}

EventPublicFrames ==
    {[RestKwargs EXCEPT !.msg_id = m, !.channel_type = "GROUP", !.target_id = t,
                        !.author_id = "u1", !.content = c, !.attachments = a,
                        !.extra = [EmptyExtra EXCEPT !.empty = FALSE, !.guild_id = g,
                                                     !.author = UserDict("u1"),
                                                     !.mention_all = "False", !.quote = q]] :
        m \in PayloadMsgIds, t \in ChannelIds, g \in GuildIds, c \in Contents,
        a \in {AttAbsent, AttObject("image")}, q \in QuotePayloads(MaxQuoteDepth)}

\* What gate.exec_req(api.Message.view(msg_id)) can answer, and the Rest-shaped
\* objects a PublicMessage is built from.
PublicViews ==
    {[RestKwargs EXCEPT !.id = m, !.channel_id = "c1", !.author = UserDict("u1"),
                        !.mention = SomeSet({}), !.mention_all = "False", !.content = c,
                        !.attachments = a, !.quote = q] :
        m \in PayloadMsgIds, c \in Contents, a \in PayloadAttachments,
        q \in QuotePayloads(MaxQuoteDepth)}

EventPrivateFrames ==
    {[RestKwargs EXCEPT !.msg_id = m, !.channel_type = "PERSON", !.author_id = "u1",
                        !.content = c, !.attachments = a,
                        !.extra = [EmptyExtra EXCEPT !.empty = FALSE, !.author = UserDict("u1"),
                                                     !.code = "k1", !.quote = q]] :
        m \in PayloadMsgIds, c \in Contents, a \in {AttAbsent, AttObject("image")},
        q \in QuotePayloads(MaxQuoteDepth)}

\* What gate.exec_req(api.DirectMessage.view(chat_code, msg_id)) can answer, and
\* the Rest-shaped objects a PrivateMessage is built from.
PrivateViews ==
    {[RestKwargs EXCEPT !.id = m, !.author_id = "u1", !.code = "k1", !.content = c,
                        !.attachments = a, !.quote = q] :
        m \in PayloadMsgIds, c \in Contents, a \in PayloadAttachments,
        q \in QuotePayloads(MaxQuoteDepth)}

\* Guild(id=...): the kwargs of the construction message.py performs.
GuildKwargs == {[id |-> i, name |-> "", roles |-> NoneList, channels |-> NoneList] : i \in GuildIds}

\* What gate.exec_req(api.Guild.view(id)) can answer, the id of the object
\* included.
GuildViewsWithId ==
    {[id |-> i, name |-> v.name, roles |-> v.roles, channels |-> v.channels] :
        i \in GuildIds, v \in GuildViews}

(***************************************************************************)
(* Pure helpers of guild.py.                                               *)
(***************************************************************************)
IsCategory(i) == i.type = "CATEGORY"
\* public_channel_factory(_gate_=..., **i): the channel object of a raw entry.
public_channel_factory(i) == [obj |-> "PublicTextChannel", id |-> i.id, type |-> i.type]

\* Role(**i)
Role(i) == [obj |-> "Role", id |-> i.role_id, name |-> i.name]

\* `[Role(**i) for i in raw_list]`
Roles(raw_list) == [k \in 1..Len(raw_list) |-> Role(raw_list[k])]

\* Guild.__init__ before it calls _update_fields; _lazy_loaded_ is not given.
GuildInit(id) ==
    [id |-> id, _loaded |-> FALSE, name |-> "",
     _roles |-> NoneList, _channels |-> NoneList, _channel_categories |-> <<>>]

\* The kwargs of a construction from an id alone: every kwargs.get(...) of
\* _update_fields takes its default.
NoKwargs == [name |-> "", roles |-> NoneList, channels |-> NoneList]

\* Guild._update_fields(**kwargs)
Guild_update_fields(self, kwargs) ==
    [self EXCEPT !.name = kwargs.name,
                 !._roles = kwargs.roles,
                 !._channels = kwargs.channels]

\* A refetch test that ignores the cache.
MustRefetch_always(force_update, cache) == TRUE

\* `if force_update or self._channels is None` of fetch_channel_list, and the
\* same test on self._roles in fetch_roles.
MustRefetch(force_update, cache) == force_update \/ cache.isNone

\* The loop of Guild.fetch_channel_list over raw_list: categories are appended
\* to self._channel_categories, every other entry to the local channel_list.
RECURSIVE FetchLoop(_, _, _)
FetchLoop(raw_list, categories, channel_list) ==
    IF raw_list = <<>> THEN [categories |-> categories, channel_list |-> channel_list]
    ELSE LET i == Head(raw_list)
         IN IF IsCategory(i)
            THEN FetchLoop(Tail(raw_list), Append(categories, i), channel_list)
            ELSE FetchLoop(Tail(raw_list), categories, Append(channel_list, public_channel_factory(i)))

\* A refetch that merges the new channels into the cached ones.
Guild_refetch_channels_merge(self, raw_list) ==
    LET loop == FetchLoop(raw_list, self._channel_categories, self._channels.items)
    IN [self EXCEPT !._channel_categories = loop.categories,
                    !._channels = SomeList(loop.channel_list)]

\* A refetch that keeps the channel cache another call has set meanwhile.
Guild_refetch_channels_first_wins(self, raw_list) ==
    LET loop == FetchLoop(raw_list, self._channel_categories, <<>>)
    IN [self EXCEPT !._channel_categories = loop.categories,
                    !._channels = IF @.isNone THEN SomeList(loop.channel_list) ELSE @]

\* The refetch branch of Guild.fetch_channel_list once raw_list has arrived.
Guild_refetch_channels(self, raw_list) ==
    LET loop == FetchLoop(raw_list, self._channel_categories, <<>>)
    IN [self EXCEPT !._channel_categories = loop.categories,
                    !._channels = SomeList(loop.channel_list)]

\* A refetch of the roles that keeps a cache it finds.
Guild_refetch_roles_keep(self, raw_list) ==
    IF self._roles.isNone THEN [self EXCEPT !._roles = SomeList(Roles(raw_list))]
    ELSE self

\* The refetch branch of Guild.fetch_roles once raw_list has arrived.
Guild_refetch_roles(self, raw_list) ==
    [self EXCEPT !._roles = SomeList(Roles(raw_list))]

(***************************************************************************)
(* Pure helpers of message.py.                                             *)
(***************************************************************************)
\* The guild reference of a Context: None, or Guild(id=..., _gate_=...).
NoGuildRef == [isNone |-> TRUE, id |-> None, _loaded |-> FALSE]
GuildRef(id) == [isNone |-> FALSE, id |-> GuildInit(id).id, _loaded |-> GuildInit(id)._loaded]

\* PublicTextChannel(id=..., name=..., _gate_=...): no guild_id is given.  oid
\* is the identity of the Python object: the frame whose hydration built it.
PublicTextChannel(id, oid) ==
    [obj |-> "PublicTextChannel", id |-> id, guild_id |-> None, oid |-> oid]

\* PrivateChannel(id=..., target_info=..., _gate_=...)
PrivateChannel(id, oid) ==
    [obj |-> "PrivateChannel", id |-> id, guild_id |-> None, oid |-> oid]

\* PublicTextChannel.load(): one channel view, from which guild_id is learnt.
PublicTextChannel_load(channel, view_guild_id) == [channel EXCEPT !.guild_id = view_guild_id]

\* Context(channel=..., guild=..., _lazy_loaded_=...)
Context(channel, guild_ref, lazy_loaded) ==
    [channel |-> channel, guild |-> guild_ref, _loaded |-> lazy_loaded]

\* GuildUser(guild_id=..., **author) and GuildUser(**author)
GuildUser(guild_id, author) ==
    [obj |-> "GuildUser", id |-> author.id, guild_id |-> guild_id, _loaded |-> FALSE]

\* User(**author, _gate_=..., _lazy_loaded_=...)
User(author, lazy_loaded) ==
    [obj |-> "User", id |-> author.id, guild_id |-> None, _loaded |-> lazy_loaded]

\* RawMessage.__init__ and Message.__init__: the fields _update_fields never
\* assigns again.
Message_init(kwargs) ==
    [id |-> IF kwargs.msg_id # None THEN kwargs.msg_id ELSE kwargs.id,
     _channel_type |-> kwargs.channel_type,
     _loaded |-> FALSE,
     _ctx |-> Context(PrivateChannel(None, "init"), NoGuildRef, FALSE),
     author |-> User(NoDict, FALSE),
     mention |-> NoneSet,
     mention_all |-> None,
     content |-> kwargs.content,
     quote |-> [isNone |-> TRUE],
     attachments |-> AttUnset]

\* A context guild that is never built.
ContextGuild_none(from_event, extra) == NoGuildRef

\* `guild=Guild(id=extra['guild_id'], _gate_=self.gate) if from_event else None`
ContextGuild(from_event, extra) ==
    IF from_event THEN GuildRef(extra.guild_id) ELSE NoGuildRef

\* An Event path that is never taken.
FromEvent_never(extra) == FALSE

\* `from_event = (len(extra) != 0)`
FromEvent(extra) == ~extra.empty

\* The quote attribute of a message: None, or a message object of class obj.
NoQuote == [isNone |-> TRUE]
QuoteObject(obj, message) == [isNone |-> FALSE, obj |-> obj, msg |-> message]

\* kwargs.get('attachments')
AttGet(att) == IF att.kind = "absent" THEN AttNone ELSE att

RECURSIVE PublicMessage_init(_)
RECURSIVE PrivateMessage_init(_)

\* A quote that is hydrated without the quote it carries itself.
PublicMessage_quote_flat(quote) ==
    IF quote.isNone THEN NoQuote
    ELSE QuoteObject("PublicMessage",
                     [PublicMessage_init(quote.kwargs) EXCEPT !.quote = NoQuote])

\* `PublicMessage(**quote, _gate_=self.gate)` if the payload's quote is not
\* None, else None.
PublicMessage_quote(quote) ==
    IF quote.isNone THEN NoQuote
    ELSE QuoteObject("PublicMessage", PublicMessage_init(quote.kwargs))

\* PublicMessage._update_fields(**kwargs), run by the frame (or constructor) oid.
PublicMessage_update_fields(self, kwargs, oid) ==
    LET extra == kwargs.extra
        from_event == FromEvent(extra)
    IN [self EXCEPT
          !._ctx = Context(PublicTextChannel(IF from_event THEN kwargs.target_id
                                                           ELSE kwargs.channel_id, oid),
                           ContextGuild(from_event, extra),
                           from_event),
          !.author = IF from_event THEN GuildUser(extra.guild_id, extra.author)
                                   ELSE GuildUser(None, kwargs.author),
          !.mention = IF from_event THEN SomeSet(extra.mention) ELSE kwargs.mention,
          !.mention_all = IF from_event THEN extra.mention_all ELSE kwargs.mention_all,
          !.quote = PublicMessage_quote(IF from_event THEN extra.quote ELSE kwargs.quote),
          !.attachments = IF from_event THEN @ ELSE AttGet(kwargs.attachments),
          !._channel_type = IF from_event THEN @ ELSE "PERSON"]

\* PublicMessage.__init__(**kwargs)
PublicMessage_init(kwargs) ==
    [PublicMessage_update_fields(Message_init(kwargs), kwargs, "init")
       EXCEPT !._loaded = kwargs._lazy_loaded_]

\* A load that never fetches the channel.
NeedsChannelLoad_never(self) == FALSE

\* `isinstance(self._ctx.channel, PublicTextChannel)` and
\* `self._ctx.channel.guild_id is None`: load must await the channel's load().
NeedsChannelLoad(self) ==
    self._ctx.channel.obj = "PublicTextChannel" /\ self._ctx.channel.guild_id = None

\* A resolution that forgets the author.
PublicMessage_resolve_guild_no_author(self) ==
    LET resolved ==
          IF self._ctx.channel.obj = "PublicTextChannel"
          THEN [self EXCEPT !._ctx.guild = GuildRef(self._ctx.channel.guild_id)]
          ELSE self
    IN [resolved EXCEPT !._loaded = TRUE]

\* PublicMessage.load after the channel is known: the guild reference, the
\* author's guild id, then the hydration flag.
PublicMessage_resolve_guild(self) ==
    LET resolved ==
          IF self._ctx.channel.obj = "PublicTextChannel"
          THEN [self EXCEPT !._ctx.guild = GuildRef(self._ctx.channel.guild_id),
                            !.author.guild_id = self._ctx.channel.guild_id]
          ELSE self
    IN [resolved EXCEPT !._loaded = TRUE]

\* `PrivateMessage(**quote, _gate_=self.gate)` if the payload's quote is not
\* None, else None.
PrivateMessage_quote(quote) ==
    IF quote.isNone THEN NoQuote
    ELSE QuoteObject("PrivateMessage", PrivateMessage_init(quote.kwargs))

\* `None if kwargs.get('attachments') is False else kwargs.get('attachments')`
PrivateMessage_attachments(att) ==
    IF AttGet(att).kind = "False" THEN AttNone ELSE AttGet(att)

\* A hydration that also takes the id of the payload.
PrivateMessage_update_fields_with_id(self, kwargs, oid) ==
    LET extra == kwargs.extra
        from_event == FromEvent(extra)
    IN [self EXCEPT
          !.id = IF kwargs.msg_id # None THEN kwargs.msg_id ELSE kwargs.id,
          !.author = User(IF from_event THEN extra.author ELSE UserDict(kwargs.author_id),
                          ~from_event),
          !._ctx = Context(PrivateChannel(IF from_event THEN extra.code ELSE kwargs.code, oid),
                           NoGuildRef, FALSE),
          !.quote = PrivateMessage_quote(IF from_event THEN extra.quote ELSE kwargs.quote),
          !.attachments = IF from_event THEN @ ELSE PrivateMessage_attachments(kwargs.attachments),
          !._channel_type = IF from_event THEN @ ELSE "PERSON"]

\* PrivateMessage._update_fields(**kwargs)
PrivateMessage_update_fields(self, kwargs, oid) ==
    LET extra == kwargs.extra
        from_event == FromEvent(extra)
    IN [self EXCEPT
          !.author = User(IF from_event THEN extra.author ELSE UserDict(kwargs.author_id),
                          ~from_event),
          !._ctx = Context(PrivateChannel(IF from_event THEN extra.code ELSE kwargs.code, oid),
                           NoGuildRef, FALSE),
          !.quote = PrivateMessage_quote(IF from_event THEN extra.quote ELSE kwargs.quote),
          !.attachments = IF from_event THEN @ ELSE PrivateMessage_attachments(kwargs.attachments),
          !._channel_type = IF from_event THEN @ ELSE "PERSON"]

\* PrivateMessage.__init__(**kwargs)
PrivateMessage_init(kwargs) ==
    [PrivateMessage_update_fields(Message_init(kwargs), kwargs, "init")
       EXCEPT !._loaded = kwargs._lazy_loaded_]

(***************************************************************************)
(* Call frames and the record of completed calls.                          *)
(***************************************************************************)
\* No payload: the view of a call that fetched none.
NoView == [absent |-> TRUE]

\* A frame: where the coroutine is suspended, the call it runs, the requests it
\* has sent and the message view it has received.
Idle ==
    [pc |-> "idle", op |-> "none", force |-> FALSE, cached |-> FALSE, reqs |-> 0,
     view |-> NoView]

\* A completed call: its operation and force_update argument, whether the cache
\* it serves was set when it began, how it ended, the requests it sent, what it
\* returned (ret: a list, retb: a bool) and what the transport answered (raw: a
\* listing, gid: the guild id of a channel view, view: the view of a load(),
\* raised: the exception of the request that failed).
NoCall ==
    [op |-> "none", force |-> FALSE, cached |-> FALSE, outcome |-> "none", reqs |-> 0,
     ret |-> NoneList, raw |-> <<>>, gid |-> None, retb |-> None, view |-> NoView,
     raised |-> None]

\* What is kept of the call before the last one.
Brief(c) ==
    [op |-> c.op, force |-> c.force, cached |-> c.cached, outcome |-> c.outcome,
     reqs |-> c.reqs, ret |-> c.ret]

NoMsg == Message_init(RestKwargs)
\* The Guild variable while a message is the entity followed.
NoGuild == Guild_update_fields(GuildInit(None), NoKwargs)

\* Frame t is free and the entity may still send k requests.
CanCall(t, k, max) == frames[t].pc = "idle" /\ nreq + k <= max


\* The coroutine of frame t suspends at its first await, one request sent.
Suspend(t, op, force, cached) ==
    /\ frames' = [frames EXCEPT ![t] = [Idle EXCEPT !.pc = "await", !.op = op,
                                                    !.force = force, !.cached = cached,
                                                    !.reqs = 1]]
    /\ nreq' = nreq + 1
    /\ UNCHANGED <<last, prev>>

\* The record of the call before the last one, once the call `call` has ended
\* too.  It is kept for a Guild, whose successive calls are compared.
Before(call) == IF cls = "Guild" THEN Brief(call) ELSE prev

\* A call that ends without reaching an await.
Immediate(t, call) ==
    /\ frames[t].pc = "idle"
    /\ last' = call
    /\ prev' = Before(last)
    /\ UNCHANGED <<frames, nreq>>

\* The call of frame t ends (returns or raises) and is recorded.
Finish(t, call) ==
    /\ frames' = [frames EXCEPT ![t] = Idle]
    /\ last' = call
    /\ prev' = Before(last)
    /\ UNCHANGED nreq

(***************************************************************************)
(* Guild                                                                   *)
(***************************************************************************)
\* Guild.load, up to the await of gate.exec_req(api.Guild.view(self.id)).
Guild_load_call(t) ==
    /\ cls = "Guild" /\ CanCall(t, 1, MaxGuildReq)
    /\ Suspend(t, "load", FALSE, FALSE)
    /\ UNCHANGED <<cls, guild, msg, hist>>

\* Guild.load from the answer of the view request, one of Views, to its end.
Guild_load_returns(t, Views) ==
    /\ cls = "Guild" /\ frames[t].pc = "await" /\ frames[t].op = "load"
    /\ \E view \in Views :
          /\ guild' = [Guild_update_fields(guild, view) EXCEPT !._loaded = TRUE]
          /\ Finish(t, [NoCall EXCEPT !.op = "load", !.outcome = "ok", !.reqs = frames[t].reqs,
                                      !.view = view])
    /\ hist' = [hist EXCEPT !.loaded_ok = TRUE]
    /\ UNCHANGED <<cls, msg>>

Guild_load_return(t) == Guild_load_returns(t, GuildViews)

\* Guild.fetch_channel_list(force_update), up to the await of the listing or,
\* on a cache hit, to its return.
Guild_fetch_channel_list_call(t, force_update) ==
    /\ cls = "Guild"
    /\ IF MustRefetch(force_update, guild._channels)
       THEN CanCall(t, 1, MaxGuildReq) /\ Suspend(t, "fetch_channel_list", force_update, ~guild._channels.isNone)
       ELSE Immediate(t, [NoCall EXCEPT !.op = "fetch_channel_list", !.force = force_update,
                                        !.cached = TRUE, !.outcome = "ok", !.reqs = 0,
                                        !.ret = guild._channels])
    /\ UNCHANGED <<cls, guild, msg, hist>>

\* Guild.fetch_channel_list from the answer of the listing to its return.
Guild_fetch_channel_list_return(t) ==
    /\ cls = "Guild" /\ frames[t].pc = "await" /\ frames[t].op = "fetch_channel_list"
    /\ \E raw_list \in ChannelListings :
          /\ guild' = Guild_refetch_channels(guild, raw_list)
          /\ Finish(t, [NoCall EXCEPT !.op = "fetch_channel_list", !.force = frames[t].force,
                                      !.cached = frames[t].cached, !.outcome = "ok", !.reqs = frames[t].reqs,
                                      !.ret = guild'._channels, !.raw = raw_list])
    /\ hist' = [hist EXCEPT !.fetched_ok = TRUE]
    /\ UNCHANGED <<cls, msg>>

\* The channels property: the cache, or ValueError('not loaded, ...').
Guild_channels(t) ==
    /\ cls = "Guild"
    /\ IF ~guild._channels.isNone
       THEN Immediate(t, [NoCall EXCEPT !.op = "channels", !.outcome = "ok", !.ret = guild._channels])
       ELSE Immediate(t, [NoCall EXCEPT !.op = "channels", !.outcome = "ValueError"])
    /\ UNCHANGED <<cls, guild, msg, hist>>

\* Guild.fetch_roles(force_update), up to the await of the listing or, on a
\* cache hit, to its return.
Guild_fetch_roles_call(t, force_update) ==
    /\ cls = "Guild"
    /\ IF MustRefetch(force_update, guild._roles)
       THEN CanCall(t, 1, MaxGuildReq) /\ Suspend(t, "fetch_roles", force_update, ~guild._roles.isNone)
       ELSE Immediate(t, [NoCall EXCEPT !.op = "fetch_roles", !.force = force_update,
                                        !.cached = TRUE, !.outcome = "ok", !.reqs = 0,
                                        !.ret = guild._roles])
    /\ UNCHANGED <<cls, guild, msg, hist>>

\* Guild.fetch_roles from the answer of the listing to its return.
Guild_fetch_roles_return(t) ==
    /\ cls = "Guild" /\ frames[t].pc = "await" /\ frames[t].op = "fetch_roles"
    /\ \E raw_list \in RoleListings :
          /\ guild' = Guild_refetch_roles(guild, raw_list)
          /\ Finish(t, [NoCall EXCEPT !.op = "fetch_roles", !.force = frames[t].force,
                                      !.cached = frames[t].cached, !.outcome = "ok", !.reqs = frames[t].reqs,
                                      !.ret = guild'._roles, !.raw = raw_list])
    /\ UNCHANGED <<cls, msg, hist>>

PassThroughOps ==
    {"create_role", "update_role", "delete_role", "grant_role", "revoke_role", "create_channel"}

\* A pass-through operation that invalidates the caches it may have outdated.
Guild_after_pass_through_invalidate(self, op) ==
    IF op = "create_channel" THEN [self EXCEPT !._channels = NoneList]
    ELSE [self EXCEPT !._roles = NoneList]

\* What a pass-through operation does to the Guild when its request is answered.
Guild_after_pass_through(self, op) == self

\* create_role, update_role, delete_role, grant_role, revoke_role and
\* create_channel: one gate.exec_req, whose answer is handed to the caller.
PassThrough_call(t, op) ==
    /\ cls = "Guild" /\ CanCall(t, 1, MaxGuildReq)
    /\ Suspend(t, op, FALSE, FALSE)
    /\ UNCHANGED <<cls, guild, msg, hist>>

PassThrough_return(t, op) ==
    /\ cls = "Guild" /\ frames[t].pc = "await" /\ frames[t].op = op
    /\ guild' = Guild_after_pass_through(guild, op)
    /\ Finish(t, [NoCall EXCEPT !.op = op, !.outcome = "ok", !.reqs = frames[t].reqs])
    /\ UNCHANGED <<cls, msg, hist>>

Guild_create_role_call(t) == PassThrough_call(t, "create_role")
Guild_create_role_return(t) == PassThrough_return(t, "create_role")
Guild_update_role_call(t) == PassThrough_call(t, "update_role")
Guild_update_role_return(t) == PassThrough_return(t, "update_role")
Guild_delete_role_call(t) == PassThrough_call(t, "delete_role")
Guild_delete_role_return(t) == PassThrough_return(t, "delete_role")
Guild_grant_role_call(t) == PassThrough_call(t, "grant_role")
Guild_grant_role_return(t) == PassThrough_return(t, "grant_role")
Guild_revoke_role_call(t) == PassThrough_call(t, "revoke_role")
Guild_revoke_role_return(t) == PassThrough_return(t, "revoke_role")
Guild_create_channel_call(t) == PassThrough_call(t, "create_channel")
Guild_create_channel_return(t) == PassThrough_return(t, "create_channel")

\* A coroutine that swallows the exception of its request.
Propagated_swallowed(frame, failure) ==
    [NoCall EXCEPT !.op = frame.op, !.force = frame.force, !.cached = frame.cached,
                   !.outcome = "ok", !.reqs = frame.reqs, !.raised = failure]

\* No coroutine of guild.py or message.py has a try or a retry around its
\* await: the call ends with the exception its request raised.
Propagated(frame, failure) ==
    [NoCall EXCEPT !.op = frame.op, !.force = frame.force, !.cached = frame.cached,
                   !.outcome = failure, !.reqs = frame.reqs, !.raised = failure]

\* A call that would drop its cache before it awaits the request.
Guild_after_failure_reset(self, op) ==
    IF op = "fetch_channel_list" THEN [self EXCEPT !._channels = NoneList]
    ELSE IF op = "fetch_roles" THEN [self EXCEPT !._roles = NoneList]
    ELSE [self EXCEPT !._loaded = FALSE]

\* The Guild after the request that load(), fetch_channel_list() or
\* fetch_roles() awaits has raised: the await is the first statement that
\* could assign, so the exception leaves before any assignment.
Guild_after_failure(self, op) == self

\* The awaited request of a coroutine raises (transport error or cancellation
\* of the task): the coroutine ends with that exception at the await, nothing
\* after the await runs.
Await_raises(t) ==
    /\ frames[t].pc \in {"await", "await_channel"}
    /\ \E failure \in TransportFailures : Finish(t, Propagated(frames[t], failure))
    /\ guild' = (IF cls = "Guild" THEN Guild_after_failure(guild, frames[t].op) ELSE guild)
    /\ UNCHANGED <<cls, msg, hist>>

(***************************************************************************)
(* PublicMessage and PrivateMessage                                        *)
(***************************************************************************)
\* PublicMessage.load, up to the await of gate.exec_req(api.Message.view(...)).
PublicMessage_load_call(t) ==
    /\ cls = "PublicMessage" /\ CanCall(t, 2, MaxMsgReq)
    /\ Suspend(t, "load", FALSE, FALSE)
    /\ UNCHANGED <<cls, guild, msg, hist>>

\* PublicMessage.load from the answer of the message view, one of Views, to
\* the await of self._ctx.channel.load() (or to its end when the channel knows
\* its guild).
PublicMessage_load_view_returns(t, Views) ==
    /\ cls = "PublicMessage" /\ frames[t].pc = "await" /\ frames[t].op = "load"
    /\ \E view \in Views :
          LET updated == PublicMessage_update_fields(msg, view, t)
          IN IF NeedsChannelLoad(updated)
             THEN /\ msg' = updated
                  /\ frames' = [frames EXCEPT ![t].pc = "await_channel", ![t].reqs = @ + 1,
                                              ![t].view = view]
                  /\ nreq' = nreq + 1
                  /\ UNCHANGED <<last, prev, hist>>
             ELSE /\ msg' = PublicMessage_resolve_guild(updated)
                  /\ Finish(t, [NoCall EXCEPT !.op = "load", !.outcome = "ok",
                                              !.reqs = frames[t].reqs,
                                              !.gid = updated._ctx.channel.guild_id,
                                              !.view = view])
                  /\ hist' = [hist EXCEPT !.loaded_ok = TRUE]
    /\ UNCHANGED <<cls, guild>>

PublicMessage_load_view_return(t) == PublicMessage_load_view_returns(t, RestPublicPayloads)

\* A load that would fill whatever channel the context holds when the answer
\* arrives.
ChannelAwaited_current(self, t, view_guild_id) ==
    [self EXCEPT !._ctx.channel = PublicTextChannel_load(@, view_guild_id)]

\* await self._ctx.channel.load(): the channel object the call was made on is
\* the one frame t built; the answer fills that object, which is still the
\* context's channel only when no other load() rebuilt the context meanwhile.
ChannelAwaited(self, t, view_guild_id) ==
    IF self._ctx.channel.oid = t
    THEN [self EXCEPT !._ctx.channel = PublicTextChannel_load(@, view_guild_id)]
    ELSE self

\* PublicMessage.load from the answer of the channel view to its end.  The
\* channel that was loaded is the object frame t built; self._ctx.channel is
\* read again afterwards.
PublicMessage_load_channel_return(t) ==
    /\ cls = "PublicMessage" /\ frames[t].pc = "await_channel" /\ frames[t].op = "load"
    /\ \E view_guild_id \in GuildIds :
          LET channel_loaded == ChannelAwaited(msg, t, view_guild_id)
          IN /\ msg' = PublicMessage_resolve_guild(channel_loaded)
             /\ Finish(t, [NoCall EXCEPT !.op = "load", !.outcome = "ok",
                                         !.reqs = frames[t].reqs, !.gid = view_guild_id,
                                         !.view = frames[t].view])
    /\ hist' = [hist EXCEPT !.loaded_ok = TRUE]
    /\ UNCHANGED <<cls, guild>>

\* PrivateMessage.load, up to the await of
\* gate.exec_req(api.DirectMessage.view(...)).
PrivateMessage_load_call(t) ==
    /\ cls = "PrivateMessage" /\ CanCall(t, 1, MaxMsgReq)
    /\ Suspend(t, "load", FALSE, FALSE)
    /\ UNCHANGED <<cls, guild, msg, hist>>

\* PrivateMessage.load from the answer of the view, one of Views, to its end.
PrivateMessage_load_returns(t, Views) ==
    /\ cls = "PrivateMessage" /\ frames[t].pc = "await" /\ frames[t].op = "load"
    /\ \E view \in Views :
          /\ msg' = [PrivateMessage_update_fields(msg, view, t) EXCEPT !._loaded = TRUE]
          /\ Finish(t, [NoCall EXCEPT !.op = "load", !.outcome = "ok", !.reqs = frames[t].reqs,
                                      !.view = view])
    /\ hist' = [hist EXCEPT !.loaded_ok = TRUE]
    /\ UNCHANGED <<cls, guild>>

PrivateMessage_load_return(t) == PrivateMessage_load_returns(t, RestPrivatePayloads)

(***************************************************************************)
(* Rule                                                                    *)
(***************************************************************************)
IsMessage == cls \in {"PublicMessage", "PrivateMessage"}

\* A test that takes every message for a PublicMessage.
IsPublicMessage_any == TRUE

\* isinstance(msg, PublicMessage)
IsPublicMessage == cls = "PublicMessage"

\* `x in msg.mention`: TypeError when the payload carried no mention list.
MentionTest(t, op, id) ==
    IF msg.mention.isNone
    THEN [NoCall EXCEPT !.op = op, !.outcome = "TypeError", !.reqs = frames[t].reqs]
    ELSE [NoCall EXCEPT !.op = op, !.outcome = "ok", !.reqs = frames[t].reqs,
                        !.retb = PyBool(id \in msg.mention.items)]

\* The rule of Rule.is_bot_mentioned(bot), up to the await of bot.fetch_me()
\* or, for a message that is no PublicMessage, to `return False`.
Rule_is_bot_mentioned_call(t) ==
    /\ IsMessage
    /\ IF ~IsPublicMessage
       THEN Immediate(t, [NoCall EXCEPT !.op = "is_bot_mentioned", !.outcome = "ok",
                                        !.retb = PyBool(FALSE)])
       ELSE CanCall(t, 1, MaxMsgReq) /\ Suspend(t, "is_bot_mentioned", FALSE, FALSE)
    /\ UNCHANGED <<cls, guild, msg, hist>>

\* The rule of Rule.is_bot_mentioned(bot) once bot.fetch_me() has answered.
Rule_is_bot_mentioned_return(t) ==
    /\ IsMessage /\ frames[t].pc = "await" /\ frames[t].op = "is_bot_mentioned"
    /\ \E me \in UserIds : Finish(t, MentionTest(t, "is_bot_mentioned", me))
    /\ UNCHANGED <<cls, guild, msg, hist>>

\* The rule of Rule.is_user_mentioned(user)
Rule_is_user_mentioned(t, user) ==
    /\ IsMessage
    /\ IF ~IsPublicMessage
       THEN Immediate(t, [NoCall EXCEPT !.op = "is_user_mentioned", !.outcome = "ok",
                                        !.retb = PyBool(FALSE)])
       ELSE Immediate(t, MentionTest(t, "is_user_mentioned", user))
    /\ UNCHANGED <<cls, guild, msg, hist>>

\* Rule.is_mention_all(msg)
Rule_is_mention_all(t) ==
    /\ IsMessage
    /\ IF ~IsPublicMessage
       THEN Immediate(t, [NoCall EXCEPT !.op = "is_mention_all", !.outcome = "ok",
                                        !.retb = PyBool(FALSE)])
       ELSE Immediate(t, [NoCall EXCEPT !.op = "is_mention_all", !.outcome = "ok",
                                        !.retb = msg.mention_all])
    /\ UNCHANGED <<cls, guild, msg, hist>>

(***************************************************************************)
(* Specification                                                           *)
(***************************************************************************)
\* The constructor call that built the entity from kwargs: no request is sent.
Constructed(kwargs) == [NoCall EXCEPT !.op = "__init__", !.outcome = "ok", !.view = kwargs]

\* Guild(id=..., _gate_=...), the construction message.py performs.
InitGuild ==
    /\ cls = "Guild"
    /\ \E id \in GuildIds : guild = Guild_update_fields(GuildInit(id), NoKwargs)
    /\ msg = NoMsg
    /\ hist = [built |-> "id", loaded_ok |-> FALSE, fetched_ok |-> FALSE, id |-> guild.id]
    /\ last = Constructed(NoKwargs)

\* PublicMessage(**kwargs, _gate_=...) from an event frame or a Rest object;
\* _lazy_loaded_ is not given, as in the constructions of message.py.
InitPublicMessage ==
    /\ cls = "PublicMessage"
    /\ \E kwargs \in EventPublicPayloads \cup RestPublicPayloads :
          /\ msg = PublicMessage_init(kwargs)
          /\ hist = [built |-> IF kwargs.extra.empty THEN "Rest" ELSE "Event", loaded_ok |-> FALSE,
                     fetched_ok |-> FALSE, id |-> msg.id]
          /\ last = Constructed(kwargs)
    /\ guild = NoGuild

\* PrivateMessage(**kwargs, _gate_=...) from an event frame or a Rest object.
InitPrivateMessage ==
    /\ cls = "PrivateMessage"
    /\ \E kwargs \in EventPrivatePayloads \cup RestPrivatePayloads :
          /\ msg = PrivateMessage_init(kwargs)
          /\ hist = [built |-> IF kwargs.extra.empty THEN "Rest" ELSE "Event", loaded_ok |-> FALSE,
                     fetched_ok |-> FALSE, id |-> msg.id]
          /\ last = Constructed(kwargs)
    /\ guild = NoGuild

InitCalls ==
    /\ frames = [t \in Tasks |-> Idle]
    /\ prev = Brief(NoCall)
    /\ nreq = 0

\* The calls on one entity are made one after the other, by one task.
MainTask == "t1"

\* No entity is built yet: the constructor of class is about to be called
\* with kwargs.
Pending(class, kwargs) == [NoCall EXCEPT !.op = "new " \o class, !.view = kwargs]
Unbuilt == [built |-> "none", loaded_ok |-> FALSE, fetched_ok |-> FALSE, id |-> None]

InitPending ==
    /\ cls = "none"
    /\ \/ \E kwargs \in GuildKwargs : last = Pending("Guild", kwargs)
       \/ \E kwargs \in EventPublicFrames \cup PublicViews :
              last = Pending("PublicMessage", kwargs)
       \/ \E kwargs \in EventPrivateFrames \cup PrivateViews :
              last = Pending("PrivateMessage", kwargs)
    /\ guild = NoGuild /\ msg = NoMsg /\ hist = Unbuilt
    /\ InitCalls

\* Guild(**kwargs)
Guild_construct ==
    /\ cls = "none" /\ last.op = "new Guild"
    /\ cls' = "Guild"
    /\ guild' = Guild_update_fields(GuildInit(last.view.id), last.view)
    /\ hist' = [hist EXCEPT !.built = "id", !.id = last.view.id]
    /\ last' = Constructed(last.view)
    /\ UNCHANGED <<msg, frames, prev, nreq>>

\* PublicMessage(**kwargs)
PublicMessage_construct ==
    /\ cls = "none" /\ last.op = "new PublicMessage"
    /\ cls' = "PublicMessage"
    /\ msg' = PublicMessage_init(last.view)
    /\ hist' = [hist EXCEPT !.built = IF last.view.extra.empty THEN "Rest" ELSE "Event",
                            !.id = msg'.id]
    /\ last' = Constructed(last.view)
    /\ UNCHANGED <<guild, frames, prev, nreq>>

\* PrivateMessage(**kwargs)
PrivateMessage_construct ==
    /\ cls = "none" /\ last.op = "new PrivateMessage"
    /\ cls' = "PrivateMessage"
    /\ msg' = PrivateMessage_init(last.view)
    /\ hist' = [hist EXCEPT !.built = IF last.view.extra.empty THEN "Rest" ELSE "Event",
                            !.id = msg'.id]
    /\ last' = Constructed(last.view)
    /\ UNCHANGED <<guild, frames, prev, nreq>>

\* One step on an entity that is built from a payload and then used by one
\* task: its loads, and for a Guild its fetches and pass-through operations.
NextHydrate ==
    \/ Guild_construct
    \/ PublicMessage_construct
    \/ PrivateMessage_construct
    \/ Guild_load_call(MainTask)
    \/ Guild_load_returns(MainTask, GuildViewsWithId)
    \/ \E f \in BOOLEAN : Guild_fetch_channel_list_call(MainTask, f)
    \/ Guild_fetch_channel_list_return(MainTask)
    \/ \E f \in BOOLEAN : Guild_fetch_roles_call(MainTask, f)
    \/ Guild_fetch_roles_return(MainTask)
    \/ \E op \in PassThroughOps : PassThrough_call(MainTask, op)
    \/ \E op \in PassThroughOps : PassThrough_return(MainTask, op)
    \/ PublicMessage_load_call(MainTask)
    \/ PublicMessage_load_view_returns(MainTask, PublicViews)
    \/ PublicMessage_load_channel_return(MainTask)
    \/ PrivateMessage_load_call(MainTask)
    \/ PrivateMessage_load_returns(MainTask, PrivateViews)
    \/ Await_raises(MainTask)

\* One step of task t on a Guild.
NextGuildOf(t) ==
    \/ Guild_load_call(t)
    \/ Guild_load_return(t)
    \/ \E f \in BOOLEAN : Guild_fetch_channel_list_call(t, f)
    \/ Guild_fetch_channel_list_return(t)
    \/ Guild_channels(t)
    \/ \E f \in BOOLEAN : Guild_fetch_roles_call(t, f)
    \/ Guild_fetch_roles_return(t)
    \/ Guild_create_role_call(t)
    \/ Guild_create_role_return(t)
    \/ Guild_update_role_call(t)
    \/ Guild_update_role_return(t)
    \/ Guild_delete_role_call(t)
    \/ Guild_delete_role_return(t)
    \/ Guild_grant_role_call(t)
    \/ Guild_grant_role_return(t)
    \/ Guild_revoke_role_call(t)
    \/ Guild_revoke_role_return(t)
    \/ Guild_create_channel_call(t)
    \/ Guild_create_channel_return(t)
    \/ Await_raises(t)

\* One step of task t on a message.
NextMessageOf(t) ==
    \/ PublicMessage_load_call(t)
    \/ PublicMessage_load_view_return(t)
    \/ PublicMessage_load_channel_return(t)
    \/ PrivateMessage_load_call(t)
    \/ PrivateMessage_load_return(t)
    \/ Rule_is_bot_mentioned_call(t)
    \/ Rule_is_bot_mentioned_return(t)
    \/ \E user \in UserIds : Rule_is_user_mentioned(t, user)
    \/ Rule_is_mention_all(t)
    \/ Await_raises(t)

NextGuild == NextGuildOf(MainTask)
NextMessage == NextMessageOf(MainTask)

InitOfGuild == InitGuild /\ InitCalls
InitOfMessage == (InitPublicMessage \/ InitPrivateMessage) /\ InitCalls
Init == InitOfGuild \/ InitOfMessage

Next == NextGuild \/ NextMessage

\* fetch_channel_list calls of two tasks on one Guild: a task may call while
\* the other is suspended at its await.
NextGuildOverlap ==
    \E t \in Tasks :
        \/ \E f \in BOOLEAN : Guild_fetch_channel_list_call(t, f)
        \/ Guild_fetch_channel_list_return(t)
        \/ Await_raises(t)

\* A Guild under sequential calls.
SpecGuild == InitOfGuild /\ [][NextGuild]_vars

\* A PublicMessage or PrivateMessage under sequential calls and rule evaluations.
SpecMessage == InitOfMessage /\ [][NextMessage]_vars

\* Any of the three entities under sequential calls.
Spec == Init /\ [][Next]_vars

\* An entity built from a payload, then hydrated again by its loads.
SpecHydrate == InitPending /\ [][NextHydrate]_vars

\* A Guild under overlapping fetch_channel_list calls.
SpecGuildOverlap == InitOfGuild /\ [][NextGuildOverlap]_vars

\* The message views that answer the overlapping loads.
OverlapViews ==
    {[RestKwargs EXCEPT !.id = m, !.channel_id = c, !.author = UserDict(u)] :
        m \in MsgIds, c \in ChannelIds, u \in UserIds}

\* Coroutines of several tasks calling load() on one PublicMessage; they
\* interleave at the awaits.
NextMessageOverlap ==
    \E t \in Tasks :
        \/ PublicMessage_load_call(t)
        \/ PublicMessage_load_view_returns(t, OverlapViews)
        \/ PublicMessage_load_channel_return(t)
        \/ Await_raises(t)

InitOfMessageOverlap == InitPublicMessage /\ InitCalls

SpecMessageOverlap == InitOfMessageOverlap /\ [][NextMessageOverlap]_vars

(***************************************************************************)
(* Properties of the Guild aggregate                                       *)
(***************************************************************************)
\* Both of the two calls that ended last are successful calls of op with the
\* same force_update.
TwoSuccessive(op, force) ==
    /\ cls = "Guild"
    /\ prev.op = op /\ prev.outcome = "ok" /\ prev.force = force
    /\ last.op = op /\ last.outcome = "ok" /\ last.force = force

\* C1: two successive fetch_channel_list(force_update=False) calls on a Guild
\* whose channel cache is unset send exactly one listing request in total (and
\* none when the cache was already set); two successive calls with
\* force_update=True send exactly two.
C1_FetchChannelListRequests ==
    /\ TwoSuccessive("fetch_channel_list", FALSE) =>
          prev.reqs + last.reqs = (IF prev.cached THEN 0 ELSE 1)
    /\ TwoSuccessive("fetch_channel_list", TRUE) => prev.reqs + last.reqs = 2

C1_Witness ==
    /\ TwoSuccessive("fetch_channel_list", FALSE)
    /\ ~prev.cached /\ prev.reqs = 1 /\ last.reqs = 0

\* The non-category entries of a listing, in listing order, as channel objects.
NonCategoryChannels(raw_list) ==
    LET kept == SelectSeq(raw_list, LAMBDA e : e.type # "CATEGORY")
    IN [k \in 1..Len(kept) |-> public_channel_factory(kept[k])]

CategoryCount(raw_list) == Cardinality({k \in 1..Len(raw_list) : raw_list[k].type = "CATEGORY"})

Refetched(op) == cls = "Guild" /\ last.op = op /\ last.outcome = "ok" /\ last.reqs = 1

\* C7: a refetch by fetch_channel_list returns, and stores as the channel cache,
\* exactly the non-category entries of the listing it fetched, in listing order:
\* no category entry, length = entries - category entries, nothing kept from an
\* earlier listing.
C7_ChannelPartition ==
    Refetched("fetch_channel_list") =>
        /\ last.ret = SomeList(NonCategoryChannels(last.raw))
        /\ guild._channels = last.ret
        /\ \A k \in 1..Len(last.ret.items) : last.ret.items[k].type # "CATEGORY"
        /\ Len(last.ret.items) = Len(last.raw) - CategoryCount(last.raw)

\* A second refetch whose listing drops a channel the first one had.
C7_Witness ==
    /\ Refetched("fetch_channel_list")
    /\ prev.op = "fetch_channel_list" /\ prev.outcome = "ok"
    /\ \E k \in 1..Len(prev.ret.items) :
          \A j \in 1..Len(last.ret.items) : last.ret.items[j] # prev.ret.items[k]
    /\ CategoryCount(last.raw) > 0 /\ Len(last.ret.items) > 0

\* C3: Guild.channels read while no fetch_channel_list() has completed
\* successfully on the Guild fails with the not-loaded error.
C3_ChannelsNeedFetch ==
    (cls = "Guild" /\ last.op = "channels" /\ ~hist.fetched_ok) => last.outcome = "ValueError"

\* C8: create_role, update_role, delete_role, grant_role, revoke_role and
\* create_channel send one request and leave the role cache and the channel
\* cache as they were, so that a following cached read (fetch_roles(False),
\* fetch_channel_list(False), channels) returns what the cache held before.
C8_PassThroughKeepsCaches ==
    [][/\ \A t \in Tasks :
            (frames'[t] # frames[t] /\ (frames[t].op \in PassThroughOps
                                         \/ frames'[t].op \in PassThroughOps)) =>
                /\ guild'._roles = guild._roles
                /\ guild'._channels = guild._channels
                /\ (frames[t].pc = "await" /\ last'.outcome = "ok") => last'.reqs = 1
       /\ (last.op \in PassThroughOps /\ last.outcome = "ok" /\ prev.outcome = "ok"
           /\ last' # last /\ last'.reqs = 0 /\ last'.outcome = "ok") =>
                /\ last'.op = "fetch_roles" /\ prev.op = "fetch_roles" => last'.ret = prev.ret
                /\ last'.op \in {"fetch_channel_list", "channels"}
                   /\ prev.op = "fetch_channel_list" => last'.ret = prev.ret
      ]_vars

\* A mutation ended while both caches were set.
C8_Witness ==
    /\ cls = "Guild" /\ last.op \in PassThroughOps /\ last.outcome = "ok" /\ last.reqs = 1
    /\ ~guild._roles.isNone /\ ~guild._channels.isNone

\* C9: fetch_roles has the force/cache contract of fetch_channel_list: two
\* successive fetch_roles(False) calls from an unset cache send one request and
\* return the same roles, two successive fetch_roles(True) calls send two, and
\* a refetch replaces the role cache with the roles of the fetched listing.
C9_FetchRoles ==
    /\ TwoSuccessive("fetch_roles", FALSE) =>
          /\ prev.reqs + last.reqs = (IF prev.cached THEN 0 ELSE 1)
          /\ last.ret = prev.ret
    /\ TwoSuccessive("fetch_roles", TRUE) => prev.reqs + last.reqs = 2
    /\ Refetched("fetch_roles") =>
          /\ guild._roles = SomeList([k \in 1..Len(last.raw) |-> Role(last.raw[k])])
          /\ last.ret = guild._roles

\* A refetch with force_update=True that replaced a non-empty role cache.
C9_Witness ==
    /\ TwoSuccessive("fetch_roles", TRUE)
    /\ prev.ret.items # <<>> /\ last.ret # prev.ret

(***************************************************************************)
(* Properties of the messages and of the rules                             *)
(***************************************************************************)
RuleOps == {"is_bot_mentioned", "is_user_mentioned", "is_mention_all"}

LoadEnded(class) == cls = class /\ last.op = "load"

\* C2: when either step of PublicMessage.load() fails or is cancelled, load()
\* fails and the hydration flag is false afterwards; the flag becomes true only
\* in a load() whose two steps succeeded.
C2_FailedLoadLeavesUnhydrated ==
    /\ []((LoadEnded("PublicMessage") /\ last.outcome \in TransportFailures) => ~msg._loaded)
    /\ [][(cls = "PublicMessage" /\ ~msg._loaded /\ msg'._loaded) =>
             (last'.op = "load" /\ last'.outcome = "ok" /\ last'.reqs = 2)]_vars

\* C4: the Context of a PublicMessage always has a non-null guild reference,
\* and Context.guild is None only in the context of a PrivateMessage.
C4_PublicGuildNeverNone ==
    IsMessage => (msg._ctx.guild.isNone <=> cls = "PrivateMessage")

\* C4, amended: Context.guild is None in every PrivateMessage context; a
\* PublicMessage context built from an Event-shaped payload has a non-null,
\* id-only guild reference; one built from a Rest-shaped payload (at
\* construction or by load()'s re-hydration) has Context.guild None until
\* load() has fetched the channel, so also in the middle of load() and after a
\* load() whose channel fetch failed.
C4_GuildNoneUntilResolved ==
    IsMessage =>
        /\ cls = "PrivateMessage" => msg._ctx.guild.isNone
        /\ (cls = "PublicMessage" /\ msg._ctx._loaded) =>
              ~msg._ctx.guild.isNone /\ msg._ctx.guild.id \in GuildIds /\ ~msg._ctx.guild._loaded
        /\ (cls = "PublicMessage" /\ ~msg._ctx._loaded) =>
              /\ msg._ctx.guild.isNone <=> msg._ctx.channel.guild_id = None
              /\ ~msg._ctx.guild.isNone => msg._loaded /\ hist.loaded_ok
              /\ (\E t \in Tasks : frames[t].pc = "await_channel") => msg._ctx.guild.isNone

\* An Event-built PublicMessage in the middle of load(): its guild is None.
C4_Witness ==
    /\ cls = "PublicMessage" /\ hist.built = "Event" /\ msg._ctx.guild.isNone
    /\ \E t \in Tasks : frames[t].pc = "await_channel"

NoLoadResolving == \A t \in Tasks : frames[t].pc # "await_channel"

\* C5: a PublicMessage built from a Rest-shaped payload has no ctx.guild until
\* a load() has completed successfully; after a successful load() ctx.guild.id
\* and author.guild_id are the guild id the channel fetch of that load()
\* reported.
C5_RestGuildResolvedByLoad ==
    cls = "PublicMessage" =>
        /\ (hist.built = "Rest" /\ ~hist.loaded_ok) => msg._ctx.guild.isNone
        /\ (last.op = "load" /\ last.outcome = "ok" /\ NoLoadResolving) =>
              /\ ~msg._ctx.guild.isNone
              /\ msg._ctx.guild.id = last.gid
              /\ msg.author.guild_id = last.gid
              /\ last.gid \in GuildIds

C5_Witness ==
    /\ cls = "PublicMessage" /\ hist.built = "Rest"
    /\ last.op = "load" /\ last.outcome = "ok" /\ NoLoadResolving
    /\ msg._ctx.guild.id = last.gid /\ msg.author.guild_id = last.gid

\* C6: one call of load() on a Guild, a PublicMessage or a PrivateMessage sends
\* exactly one transport request.
C6_LoadOneFetch ==
    last.op = "load" => last.reqs = 1

\* C6, amended: one call of load() on a Guild or a PrivateMessage sends exactly
\* one transport request; one call of PublicMessage.load() sends two, the
\* message view and then the channel view (the first alone when the message
\* view fails).
C6_LoadFetches ==
    /\ (last.op = "load" /\ cls # "PublicMessage") => last.reqs = 1
    /\ (last.op = "load" /\ cls = "PublicMessage") =>
          /\ last.outcome = "ok" => last.reqs = 2
          /\ last.reqs \in {1, 2}
    /\ \A t \in Tasks : frames[t].op = "load" =>
          frames[t].reqs = (IF frames[t].pc = "await_channel" THEN 2 ELSE 1)

C6_Witness == LoadEnded("PublicMessage") /\ last.outcome = "ok" /\ last.reqs = 2

\* C10: is_bot_mentioned, is_user_mentioned and is_mention_all on a message
\* that is no PublicMessage return False without raising, is_bot_mentioned
\* without calling bot.fetch_me(); fetch_me is called only for a PublicMessage.
C10_GuildOnlyRules ==
    /\ (last.op \in RuleOps /\ cls # "PublicMessage") =>
          last.outcome = "ok" /\ last.retb = "False" /\ last.reqs = 0
    /\ \A t \in Tasks : frames[t].op = "is_bot_mentioned" => cls = "PublicMessage"

C10_Witness == cls = "PrivateMessage" /\ last.op = "is_bot_mentioned" /\ last.retb = "False"

(***************************************************************************)
(* Properties of failing requests                                          *)
(***************************************************************************)
FetchingOps == {"load", "fetch_channel_list", "fetch_roles"}

\* C11: when the request a load(), fetch_channel_list() or fetch_roles() call
\* awaits raises, the call ends in that step with the exception the request
\* raised, and sends no further request.
C11_TransportErrorPropagates ==
    [][\A t \in Tasks :
          (/\ frames[t].pc # "idle" /\ frames[t].op \in FetchingOps
           /\ frames'[t].pc = "idle" /\ last'.raised \in TransportFailures) =>
              /\ last'.op = frames[t].op
              /\ last'.outcome = last'.raised
              /\ last'.reqs = frames[t].reqs
              /\ nreq' = nreq
      ]_vars

\* A PublicMessage.load() whose channel fetch raised a transport error.
C11_Witness ==
    /\ cls = "PublicMessage" /\ last.op = "load" /\ last.reqs = 2
    /\ last.raised = "TransportError" /\ last.outcome = "TransportError"
    /\ \A t \in Tasks : frames[t].pc = "idle"

(***************************************************************************)
(* Properties of overlapping calls                                         *)
(***************************************************************************)
InFlight(op) == {t \in Tasks : frames[t].pc # "idle" /\ frames[t].op = op}

\* The two calls that ended last both began on an unset channel cache with
\* force_update=False: the second began before the first completed.
OverlappedFetches ==
    /\ TwoSuccessive("fetch_channel_list", FALSE)
    /\ ~prev.cached /\ ~last.cached

\* C12: fetch_channel_list calls that overlap on one Guild each send their own
\* listing request, also with force_update=False on an unset cache (a call
\* returns without a request only a cache that is set), and the channel cache
\* is the list built by the call that assigned it last.
C12_OverlapLastWriteWins ==
    /\ \A t \in InFlight("fetch_channel_list") : frames[t].reqs = 1
    /\ Cardinality(InFlight("fetch_channel_list")) <= nreq
    /\ (cls = "Guild" /\ last.op = "fetch_channel_list" /\ last.outcome = "ok"
        /\ last.reqs = 0) => (last.cached /\ ~last.ret.isNone)
    /\ Refetched("fetch_channel_list") =>
          guild._channels = SomeList(NonCategoryChannels(last.raw))
    /\ OverlappedFetches =>
          /\ prev.reqs = 1 /\ last.reqs = 1
          /\ InFlight("fetch_channel_list") = {} => guild._channels = last.ret

\* Two overlapped calls have both completed with different lists; the cache is
\* the list of the one that completed last.
C12_Witness ==
    /\ OverlappedFetches /\ InFlight("fetch_channel_list") = {}
    /\ nreq = 2 /\ prev.ret # last.ret /\ guild._channels = last.ret

(***************************************************************************)
(* Properties of hydration                                                 *)
(***************************************************************************)
\* The message is as its constructor left it: the constructor is the call that
\* ended last and no load() has hydrated the message again.
JustConstructed(class) ==
    cls = class /\ last.op = "__init__" /\ msg._ctx.channel.oid = "init"

\* C13: constructing a PublicMessage from an Event-shaped payload (extra is
\* non-empty and carries guild_id) gives ctx.guild.id = extra.guild_id,
\* ctx.channel.id = target_id and author.guild_id = extra.guild_id, and sends
\* no request; the Event path is taken exactly when extra is non-empty (a
\* payload with an empty extra takes channel_id and gets no guild).
C13_EventConstruction ==
    JustConstructed("PublicMessage") =>
        LET kwargs == last.view
        IN /\ last.reqs = 0
           /\ (\A t \in Tasks : frames[t].pc = "idle") => nreq = 0
           /\ msg._ctx._loaded <=> ~kwargs.extra.empty
           /\ ~kwargs.extra.empty =>
                 /\ ~msg._ctx.guild.isNone
                 /\ msg._ctx.guild.id = kwargs.extra.guild_id
                 /\ msg._ctx.channel.id = kwargs.target_id
                 /\ msg.author.guild_id = kwargs.extra.guild_id
                 /\ msg.author.id = kwargs.extra.author.id
           /\ kwargs.extra.empty =>
                 /\ msg._ctx.guild.isNone
                 /\ msg._ctx.channel.id = kwargs.channel_id

\* A PublicMessage just built from an event frame of guild g2 in channel c2.
C13_Witness ==
    /\ JustConstructed("PublicMessage") /\ hist.built = "Event" /\ nreq = 0
    /\ prev.op = "none"
    /\ last.view.extra.guild_id = "g2" /\ msg._ctx.guild.id = "g2"
    /\ last.view.target_id = "c2" /\ msg._ctx.channel.id = "c2"

\* The id a payload gives to the message built from it:
\* kwargs.get('msg_id', kwargs.get('id')).
PayloadId(kwargs) == IF kwargs.msg_id # None THEN kwargs.msg_id ELSE kwargs.id

\* C14: the id of a Guild, a PublicMessage or a PrivateMessage stays the id its
\* constructor set, through every load(), fetch and pass-through operation,
\* successful or failed, whatever id the fetched payloads carry.
C14_IdentityImmutable ==
    /\ cls = "Guild" => (guild.id = hist.id /\ hist.id \in GuildIds)
    /\ IsMessage => (msg.id = hist.id /\ hist.id \in PayloadMsgIds)
    /\ (cls = "Guild" /\ last.op = "__init__") => guild.id = last.view.id
    /\ (IsMessage /\ last.op = "__init__") => msg.id = PayloadId(last.view)

\* A PrivateMessage whose load() was answered with the view of another id.
C14_Witness ==
    /\ LoadEnded("PrivateMessage") /\ last.outcome = "ok"
    /\ last.view.id # msg.id /\ msg.id = hist.id

\* The message of class `class` holds what its constructor or its last load()
\* made of the payload last.view, and no call is under way.
Hydrated(class) ==
    /\ cls = class
    /\ last.op = "__init__" \/ (last.op = "load" /\ last.outcome = "ok")
    /\ \A t \in Tasks : frames[t].pc = "idle"

\* The quote a payload embeds: extra['quote'] of an event frame, the 'quote'
\* key of a Rest-shaped object.
QuoteSource(kwargs) == IF kwargs.extra.empty THEN kwargs.quote ELSE kwargs.extra.quote

\* quote is the object of class `class` that hydrating the nested payload on
\* its own gives, and so are the quotes below it.
RECURSIVE QuoteMatches(_, _, _)
QuoteMatches(class, quote, payload) ==
    IF payload.isNone THEN quote.isNone
    ELSE /\ ~quote.isNone
         /\ quote.obj = class
         /\ quote.msg = IF class = "PublicMessage" THEN PublicMessage_init(payload.kwargs)
                                                  ELSE PrivateMessage_init(payload.kwargs)
         /\ quote.msg.id = PayloadId(payload.kwargs)
         /\ quote.msg.content = payload.kwargs.content
         /\ QuoteMatches(class, quote.msg.quote, QuoteSource(payload.kwargs))

\* C15: the quote of a hydrated message is None when its payload embeds no
\* quote, and otherwise an object of the owner's class whose fields are those
\* of hydrating the nested payload on its own, at every depth, for Event-shaped
\* and Rest-shaped outer payloads.
C15_QuoteHydration ==
    \A class \in {"PublicMessage", "PrivateMessage"} :
        Hydrated(class) => QuoteMatches(class, msg.quote, QuoteSource(last.view))

\* A PublicMessage built from an event frame whose quote quotes in turn.
C15_Witness ==
    /\ Hydrated("PublicMessage") /\ last.op = "__init__" /\ hist.built = "Event"
    /\ ~msg.quote.isNone /\ msg.quote.obj = "PublicMessage"
    /\ ~msg.quote.msg.quote.isNone /\ msg.quote.msg.quote.msg.id = "m2"

\* C16: after a load() that succeeded, every non-identity field of the entity
\* is the one of the payload this load() fetched: a Guild's name, roles and
\* channels, a message's content and quote (nothing of an earlier payload is
\* left).
C16_LoadReflectsLatestPayload ==
    /\ (Hydrated("Guild") /\ last.op = "load") =>
            /\ guild.name = last.view.name
            /\ guild._roles = last.view.roles
            /\ guild._channels = last.view.channels
    /\ \A class \in {"PublicMessage", "PrivateMessage"} :
            (Hydrated(class) /\ last.op = "load") =>
                /\ msg.content = last.view.content
                /\ QuoteMatches(class, msg.quote, QuoteSource(last.view))

\* What the attachment normalisation is to give for a payload's 'attachments':
\* the object when it is one, None when it is false, None or absent.
NormalizedAttachments(att) == IF att.kind = "object" THEN att ELSE AttNone

\* C17: for every PrivateMessage payload, Event-shaped or Rest-shaped, the
\* message hydrated from it has attachments None when the payload gives false
\* or nothing, and the payload's object unchanged when it gives one.
C17_PrivateAttachmentNormalization ==
    Hydrated("PrivateMessage") => msg.attachments = NormalizedAttachments(last.view.attachments)

\* Frame t ends a load() of the PublicMessage successfully in this step.
LoadCompletes(t) ==
    /\ cls = "PublicMessage"
    /\ frames[t].op = "load" /\ frames[t].pc # "idle" /\ frames'[t].pc = "idle"
    /\ last'.op = "load" /\ last'.outcome = "ok"

\* C18 (as stated): under overlapping load() calls, whenever a load() sets the
\* hydration flag, ctx.guild is non-null, its id is a known guild id, equal to
\* the guild id of the current ctx.channel and to author.guild_id.
C18_HydratedMeansGuildKnown ==
    [][\A t \in Tasks :
          LoadCompletes(t) =>
              /\ msg'._loaded
              /\ ~msg'._ctx.guild.isNone
              /\ msg'._ctx.guild.id \in GuildIds
              /\ msg'._ctx.guild.id = msg'._ctx.channel.guild_id
              /\ msg'.author.guild_id = msg'._ctx.guild.id]_vars

\* C18 (amended): whenever a load() sets the hydration flag, ctx.guild is
\* non-null and its id equals the guild id of the current ctx.channel and
\* author.guild_id; that id is a known guild id, except when an overlapping
\* load() has replaced ctx.channel by a channel not yet fetched, and then it
\* is None.
C18_HydratedMeansCurrentChannelGuild ==
    [][\A t \in Tasks :
          LoadCompletes(t) =>
              /\ msg'._loaded
              /\ ~msg'._ctx.guild.isNone
              /\ msg'._ctx.guild.id = msg'._ctx.channel.guild_id
              /\ msg'.author.guild_id = msg'._ctx.guild.id
              /\ msg'._ctx.guild.id \in GuildIds \cup {None}
              /\ msg'._ctx.guild.id = None <=>
                    (msg._ctx.channel.oid # t /\ msg._ctx.channel.guild_id = None)]_vars

\* A load() has just set the flag while the other load(), which rebuilt the
\* context, still awaits its channel: the guild object has no id.
C18_Witness ==
    /\ cls = "PublicMessage" /\ msg._loaded
    /\ last.op = "load" /\ last.outcome = "ok" /\ last.reqs = 2
    /\ \E t \in Tasks : /\ frames[t].pc = "await_channel"
                          /\ msg._ctx.channel.oid = t
                          /\ \A u \in Tasks \ {t} : frames[u].pc = "idle"
    /\ ~msg._ctx.guild.isNone /\ msg._ctx.guild.id = None
    /\ msg.author.guild_id = None /\ msg._ctx.channel.guild_id = None

\* The call before the last one was a successful `op`, and the last one a
\* successful load().
LoadAfter(op) ==
    /\ cls = "Guild"
    /\ prev.op = op /\ prev.outcome = "ok"
    /\ last.op = "load" /\ last.outcome = "ok"

\* C19: a load() that follows a successful fetch_channel_list() (or
\* fetch_roles()) leaves the cache as that fetch returned it, and once
\* fetch_channel_list() has succeeded, reading channels never raises.
C19_LoadPreservesFetchedCaches ==
    /\ LoadAfter("fetch_channel_list") => guild._channels = prev.ret
    /\ LoadAfter("fetch_roles") => guild._roles = prev.ret
    /\ (cls = "Guild" /\ hist.fetched_ok /\ last.op = "channels") => last.outcome = "ok"

\* The category entries of a listing, in its order.
CategoryEntries(raw_list) == SelectSeq(raw_list, IsCategory)

\* C20: after every completed refetch by fetch_channel_list, the stored
\* category entries are exactly the category entries of that listing, and the
\* stored categories and the cached channels together count the listing's
\* entries.
C20_CategoriesOfLatestListing ==
    Refetched("fetch_channel_list") =>
        /\ guild._channel_categories = CategoryEntries(last.raw)
        /\ Len(guild._channel_categories) + Len(guild._channels.items) = Len(last.raw)

\* C21: a fetch_channel_list(), fetch_roles() or load() of a Guild whose
\* request fails leaves the channel cache, the stored categories, the role
\* cache, every other field and the hydration flag as they were before the
\* call: neither the step that sends the request nor the step in which the
\* request raises changes the Guild.
C21_FailedFetchLeavesGuild ==
    [][\A t \in Tasks :
          (cls = "Guild" /\ frames'[t] # frames[t]
           /\ (frames[t].op \in FetchingOps \/ frames'[t].op \in FetchingOps)
           /\ ~(frames'[t].pc = "idle" /\ last'.outcome = "ok")) =>
              /\ guild'._channels = guild._channels
              /\ guild'._channel_categories = guild._channel_categories
              /\ guild'._roles = guild._roles
              /\ guild' = guild
      ]_vars

\* A refetch of the channel list has failed after a fetch that filled the
\* cache and stored a category: both are still there.
C21_Witness ==
    /\ cls = "Guild" /\ last.op = "fetch_channel_list" /\ last.outcome \in TransportFailures
    /\ prev.op = "fetch_channel_list" /\ prev.outcome = "ok"
    /\ guild._channels = prev.ret /\ guild._channels.items # <<>>
    /\ guild._channel_categories # <<>>
    /\ \A t \in Tasks : frames[t].pc = "idle"

\* C22: an entity that message hydration creates from an id alone is flagged
\* unhydrated, and one flagged hydrated was built from a payload holding its
\* fields: the author of a PrivateMessage hydrated from a Rest-shaped payload
\* (built from author_id alone) is unhydrated, the author of any PrivateMessage
\* is flagged hydrated only when the payload carried the author's fields, and
\* the guild of a PublicMessage (built from a guild id alone) is unhydrated.
C22_PartialEntitiesUnhydrated ==
    /\ Hydrated("PrivateMessage") =>
            /\ last.view.extra.empty => ~msg.author._loaded
            /\ msg.author._loaded => ~last.view.extra.empty
    /\ Hydrated("PublicMessage") =>
            /\ ~msg._ctx.guild.isNone => ~msg._ctx.guild._loaded
            /\ ~msg.author._loaded

\* C23: the channel_type of a PublicMessage is never PERSON, after
\* construction from either payload shape and after load().
C23_PublicChannelTypeNeverPerson ==
    cls = "PublicMessage" => msg._channel_type # "PERSON"

====
